---- MODULE Spec2Model ----
(***************************************************************************)
(* Model of the job-graph core of cascade:                                 *)
(*   src/src/cascade/runner/job_graph.py      identifiers, CascadeJob,     *)
(*                                            recipe_graph_to_job_graph    *)
(*   src/src/cascade/executor/dismodel_main.py  Application.add_arguments, *)
(*                                            Application.sub_graph_to_run *)
(*                                                                         *)
(* A networkx DiGraph is modelled as a record                              *)
(*   [node  |-> function from node key to its attribute dict,              *)
(*    edges |-> set of <<u, v>> pairs,                                     *)
(*    graph |-> the graph-level attribute dict].                           *)
(* A Python dict is a TLA+ function whose DOMAIN is the set of keys, so    *)
(* that "key in d" is "key \in DOMAIN d" and a missing key is observable.  *)
(***************************************************************************)
EXTENDS Integers, Sequences, FiniteSets, TLC

VARIABLES
    recipe_graph,   \* argument of recipe_graph_to_job_graph
    job_graph,      \* local job_graph of recipe_graph_to_job_graph
    recipe_edges,   \* local recipe_edges: recipe identifier -> input/output
    idx,            \* position of the for loop in recipe_graph.nodes
    pc,             \* where the compiler is
    exc,            \* exception that left the compiler, "none" when none did
    args,           \* the argparse Namespace handed to sub_graph_to_run
    argv,           \* the options the caller gave, from which args was made
    sub_graph,      \* value returned by sub_graph_to_run
    raw,            \* fields handed to an identifier constructor
    rid,            \* last RecipeIdentifier constructed
    jidA,           \* a JobIdentifier
    jidB,           \* another JobIdentifier
    ctor,           \* exception of the last constructor call, "none" when none
    made,           \* the object the last constructor call made, if it made one
    cmp,            \* outcome of the last comparison of jidA with jidB
    job,            \* a CascadeJob
    validated,      \* calls of validate received by the entities of job
    mocked,         \* calls of mock received by the outputs of job
    outcome,        \* what the last call of a method of job returned or raised
    table_data,     \* DismodFile._table_data: table name -> DataFrame in memory
    table_hash,     \* DismodFile._table_hash: table name -> hash of the DataFrame
    db,             \* the tables of the database behind DismodFile.engine
    attrs,          \* the other attributes of the DismodFile instance, self.engine
                    \* among them
    last,           \* the last call on the DismodFile and what came of it
    artifacts,      \* the artifacts that exist in the execution context
    ran,            \* the jobs of job_graph whose mock_run has returned
    run_exc         \* the exception that ended the mock run, "none" when none did

vars == <<recipe_graph, job_graph, recipe_edges, idx, pc, exc,
          args, argv, sub_graph, raw, rid, jidA, jidB, ctor, made, cmp,
          job, validated, mocked, outcome,
          table_data, table_hash, db, attrs, last,
          artifacts, ran, run_exc>>

compilerVars == <<recipe_graph, job_graph, recipe_edges, idx, pc, exc>>
selectVars == <<args, argv, sub_graph>>
identVars == <<raw, rid, jidA, jidB, ctor, made, cmp>>
jobVars == <<job, validated, mocked, outcome>>
fileVars == <<table_data, table_hash, db, attrs, last>>
runVars == <<artifacts, ran, run_exc>>

(***************************************************************************)
(* Bounds of the model.                                                    *)
(***************************************************************************)
\* longest job list of a recipe
MaxJobs == 3

\* an optional object: Nothing, or Some(x)
Nothing == << >>
Some(x) == <<x>>

(***************************************************************************)
(* Python helpers.                                                         *)
(***************************************************************************)
EmptyDict == << >>

Range(s) == {s[i] : i \in DOMAIN s}

\* s[:-1]
ButLast(s) == IF Len(s) = 0 THEN << >> ELSE SubSeq(s, 1, Len(s) - 1)

\* s[1:]
Rest(s) == IF Len(s) = 0 THEN << >> ELSE SubSeq(s, 2, Len(s))

\* zip(a, b): pairs up to the shorter of the two
Zip(a, b) ==
    LET n == IF Len(a) < Len(b) THEN Len(a) ELSE Len(b)
    IN [i \in 1..n |-> <<a[i], b[i]>>]

\* d[k] = v  on a dict
DictSet(d, k, v) == [x \in (DOMAIN d) \cup {k} |-> IF x = k THEN v ELSE d[x]]

\* d.update(e)
DictUpdate(d, e) ==
    [x \in (DOMAIN d) \cup (DOMAIN e) |-> IF x \in DOMAIN e THEN e[x] ELSE d[x]]

(***************************************************************************)
(* Identity model: RecipeIdentifier and JobIdentifier.                     *)
(***************************************************************************)
AllowedSexes == {"male", "female", "both"}

\* the location identifiers, recipe names, sexes and job names that occur
LocationIds == {1, 2}
RecipeNames == {"bundle_setup", "estimate_location"}
JobNames == {"fit", "compute_draws_from_parent_fit"}

\* what a caller may hand to a constructor: also a sex that is none of the
\* three tokens, and a recipe that is a sex token
RawRecipes == RecipeNames \cup {"male"}
RawSexes == AllowedSexes \cup {"unknown"}
RawFields == [location_id : LocationIds, recipe : RawRecipes, sex : RawSexes]

\* a plausible slip in RecipeIdentifier.__init__: line 31 left out
RecipeInitPassesSexOnly(location_id, recipe, sex) ==
    /\ location_id \in Int
    /\ recipe \in STRING
    /\ sex \in AllowedSexes

\* RecipeIdentifier.__init__: the two isinstance asserts hold of every value
\* of LocationIds and RawRecipes; the two membership asserts decide.
RecipeInitPasses(location_id, recipe, sex) ==
    /\ location_id \in Int
    /\ recipe \in STRING
    /\ sex \in AllowedSexes
    /\ recipe \notin AllowedSexes

RecipeIdentifier(location_id, recipe, sex) ==
    IF RecipeInitPasses(location_id, recipe, sex)
    THEN [exc |-> "none",
          obj |-> Some([location_id |-> location_id, recipe |-> recipe, sex |-> sex])]
    ELSE [exc |-> "AssertionError", obj |-> Nothing]

\* JobIdentifier.__init__: sets _name, then runs RecipeIdentifier.__init__ on
\* the three attributes read from recipe_identifier.
JobIdentifier(recipe_identifier, name) ==
    LET base == RecipeIdentifier(recipe_identifier.location_id,
                                 recipe_identifier.recipe,
                                 recipe_identifier.sex)
    IN IF base.exc = "none"
       THEN [exc |-> "none",
             obj |-> Some([location_id |-> base.obj[1].location_id,
                           recipe |-> base.obj[1].recipe,
                           sex |-> base.obj[1].sex,
                           name |-> name])]
       ELSE [exc |-> base.exc, obj |-> Nothing]

\* RecipeIdentifier.__eq__ (isinstance holds of every identifier)
RecipeEq(self, other) ==
    \A x \in {"location_id", "recipe", "sex"} : self[x] = other[x]

\* a plausible slip in JobIdentifier.__eq__: the inherited comparison alone
JobEqWithoutName(self, other) == RecipeEq(self, other)

\* JobIdentifier.__eq__
JobEq(self, other) == RecipeEq(self, other) /\ self.name = other.name

\* hash() of an int is the int
IntHash(v) == v

\* hash() of a string is a number fixed for the run of the interpreter
StrHash(v) ==
    CASE v = "male" -> 11
      [] v = "female" -> 12
      [] v = "both" -> 13
      [] v = "bundle_setup" -> 21
      [] v = "estimate_location" -> 22
      [] v = "fit" -> 31
      [] v = "compute_draws_from_parent_fit" -> 32
      [] OTHER -> 0

\* hash() of a tuple combines the hashes of its items in order
RECURSIVE TupleHash(_)
TupleHash(t) ==
    IF Len(t) = 0 THEN 7
    ELSE (TupleHash(ButLast(t)) * 31 + t[Len(t)]) % 1009

\* RecipeIdentifier.__hash__
RecipeHash(self) ==
    TupleHash(<<IntHash(self.location_id), StrHash(self.recipe), StrHash(self.sex)>>)

\* JobIdentifier.__hash__
JobHash(self) ==
    TupleHash(<<IntHash(self.location_id), StrHash(self.recipe), StrHash(self.sex),
                StrHash(self.name)>>)

(***************************************************************************)
(* CascadeJob.                                                             *)
(***************************************************************************)
\* the local settings every job of a recipe graph is built with
LocalSettings == [number_of_fixed_effect_samples |-> 5]

\* the sample counts a configuration may hold: the constructor takes the
\* value as it is
SampleCounts == {0, 1, 5}

\* the local settings a caller may hand to CascadeJob
LocalSettingsGiven == [number_of_fixed_effect_samples : SampleCounts]

\* CascadeJob.__init__.  oid tells two instances with equal fields apart,
\* as the identity of a Python object does.
CascadeJob(name, recipe_identifier, local_settings, oid) ==
    [name |-> name,
     recipe |-> recipe_identifier,
     local_settings |-> local_settings,
     inputs |-> EmptyDict,
     outputs |-> EmptyDict,
     multiplicity |-> IF name # "compute_draws_from_parent_fit"
                      THEN 1
                      ELSE local_settings.number_of_fixed_effect_samples,
     oid |-> oid]

\* the RecipeIdentifiers that can be constructed
RecipeIdentifiers ==
    {RecipeIdentifier(f.location_id, f.recipe, f.sex).obj[1] :
        f \in {g \in RawFields : RecipeInitPasses(g.location_id, g.recipe, g.sex)}}

\* CascadeJob.job_identifier
job_identifier(self) == JobIdentifier(self.recipe, self.name).obj[1]

(***************************************************************************)
(* networkx.DiGraph, as far as the compiler and the selector use it.       *)
(***************************************************************************)
\* nx.DiGraph()
DiGraph == [node |-> EmptyDict, edges |-> {}, graph |-> EmptyDict]

\* G.add_nodes_from(pairs): pairs is a sequence of <<key, attribute dict>>;
\* a key already present has its attributes updated
RECURSIVE add_nodes_from(_, _)
add_nodes_from(G, pairs) ==
    IF Len(pairs) = 0 THEN G
    ELSE LET n == pairs[1][1]
             old == IF n \in DOMAIN G.node THEN G.node[n] ELSE EmptyDict
             G1 == [G EXCEPT !.node = DictSet(G.node, n, DictUpdate(old, pairs[1][2]))]
         IN add_nodes_from(G1, Rest(pairs))

\* G.add_edges_from(pairs): an end point that is no node yet becomes one,
\* with no attributes; an edge already present stays single
RECURSIVE add_edges_from(_, _)
add_edges_from(G, pairs) ==
    IF Len(pairs) = 0 THEN G
    ELSE LET u == pairs[1][1]
             v == pairs[1][2]
             withU == IF u \in DOMAIN G.node THEN G.node ELSE DictSet(G.node, u, EmptyDict)
             withV == IF v \in DOMAIN withU THEN withU ELSE DictSet(withU, v, EmptyDict)
             G1 == [G EXCEPT !.node = withV, !.edges = G.edges \cup {<<u, v>>}]
         IN add_edges_from(G1, Rest(pairs))

(***************************************************************************)
(* recipe_graph_to_job_graph.                                              *)
(***************************************************************************)
\* the recipe identifiers that can be nodes of a recipe graph
RecipeNodes ==
    {[location_id |-> 1, recipe |-> "bundle_setup", sex |-> "both"],
     [location_id |-> 2, recipe |-> "estimate_location", sex |-> "male"]}

\* the recipe identifiers graph["root"] can name: a node, or a recipe that
\* is no node of the graph
RootCandidates ==
    RecipeNodes \cup {[location_id |-> 2, recipe |-> "estimate_location", sex |-> "female"]}

\* line 177: job_ids = [job_node.job_identifier for job_node in job_list]
JobIdsOf(job_list) == [i \in 1..Len(job_list) |-> job_identifier(job_list[i])]

\* a plausible slip in lines 178-181: every node gets the first job of the list
AnnotatedJobsAllFirst(job_ids, job_list) ==
    [i \in 1..Len(job_ids) |-> <<job_ids[i], [job |-> job_list[1]]>>]

\* lines 178-181: (jid, dict(job=add_job)) for (jid, add_job) in zip(...)
AnnotatedJobs(job_ids, job_list) ==
    LET z == Zip(job_ids, job_list)
    IN [i \in 1..Len(z) |-> <<z[i][1], [job |-> z[i][2]]>>]

\* a plausible slip in line 182: the two slices exchanged
ChainEdgesReversed(job_ids) == Zip(Rest(job_ids), ButLast(job_ids))

\* line 182: zip(job_ids[:-1], job_ids[1:])
ChainEdges(job_ids) == Zip(ButLast(job_ids), Rest(job_ids))

\* a plausible slip in lines 177-182: line 182 left out
AddRecipeJobsNodesOnly(G, job_list) ==
    add_nodes_from(G, AnnotatedJobs(JobIdsOf(job_list), job_list))

\* lines 177-182: the nodes and the chain of one recipe
AddRecipeJobs(G, job_list) ==
    LET job_ids == JobIdsOf(job_list)
        G1 == add_nodes_from(G, AnnotatedJobs(job_ids, job_list))
    IN add_edges_from(G1, ChainEdges(job_ids))

\* a plausible slip in line 186: job_ids[-1]
RootJobLast(job_ids) == job_ids[Len(job_ids)]

\* line 186: job_ids[0]
RootJob(job_ids) == job_ids[1]

\* a plausible slip in line 183: the first job recorded as the output too
BoundaryFirstOnly(job_list) ==
    LET job_ids == JobIdsOf(job_list)
    IN [input |-> job_ids[1], output |-> job_ids[1]]

\* line 183: dict(input=job_ids[0], output=job_ids[-1])
Boundary(job_list) ==
    LET job_ids == JobIdsOf(job_list)
    IN [input |-> job_ids[1], output |-> job_ids[Len(job_ids)]]

\* a set as a sequence, in some order: the order in which networkx reports
\* the edges of a graph does not change what add_edges_from builds
RECURSIVE SeqOf(_)
SeqOf(S) ==
    IF S = {} THEN << >>
    ELSE LET x == CHOOSE y \in S : TRUE IN <<x>> \o SeqOf(S \ {x})

\* a plausible slip in lines 189-192: the edge drawn from the first job of
\* the recipe the edge leaves
CrossEdgesFromInput(edges, re) ==
    LET es == SeqOf(edges)
    IN [i \in 1..Len(es) |-> <<re[es[i][1]].input, re[es[i][2]].input>>]

\* a plausible slip in lines 189-192: the edge drawn against the direction
\* of the recipe edge
CrossEdgesBackwards(edges, re) ==
    LET es == SeqOf(edges)
    IN [i \in 1..Len(es) |-> <<re[es[i][2]].output, re[es[i][1]].input>>]

\* lines 189-192: one edge per edge of the recipe graph
CrossEdges(edges, re) ==
    LET es == SeqOf(edges)
    IN [i \in 1..Len(es) |-> <<re[es[i][1]].output, re[es[i][2]].input>>]

\* the sequences without repetition over a set
RECURSIVE Orders(_)
Orders(S) ==
    IF S = {} THEN {<< >>}
    ELSE UNION {{<<x>> \o t : t \in Orders(S \ {x})} : x \in S}

\* the job lists a recipe node can carry: up to MaxJobs jobs, names free
NameLists == UNION {[1..n -> JobNames] : n \in 0..MaxJobs}

JobListOf(names, r, at) ==
    [k \in 1..Len(names) |-> CascadeJob(names[k], r, LocalSettings, <<at, k>>)]

\* A recipe graph: order is the order in which recipe_graph.nodes iterates
\* (the order of insertion), node the attribute dict of each node.
RecipeGraphOf(order, names, edges, graph) ==
    [order |-> order,
     node |-> [r \in Range(order) |->
                 LET at == CHOOSE i \in 1..Len(order) : order[i] = r
                 IN [job_list |-> JobListOf(names[at], r, at)]],
     edges |-> edges,
     graph |-> graph]

\* recipe_graph.graph: "root" names a recipe, or the key is missing
RecipeGraphAttrs == {EmptyDict} \cup {[root |-> r] : r \in RootCandidates}

\* the state of one run of the compiler
Frame(jg, re, i, at, e) ==
    [job_graph |-> jg, recipe_edges |-> re, idx |-> i, pc |-> at, exc |-> e]

StartFrame == Frame(DiGraph, EmptyDict, 1, "loop", "none")

\* a plausible slip in lines 172-176: all the job lists checked before the
\* first recipe is compiled
NoSubJobsAnywhere(rg, f) ==
    /\ f.pc = "loop"
    /\ f.idx <= Len(rg.order)
    /\ \E i \in 1..Len(rg.order) : Len(rg.node[rg.order[i]].job_list) < 1

\* lines 173-176: the job list is empty
NoSubJobs(rg, f) ==
    /\ f.pc = "loop"
    /\ f.idx <= Len(rg.order)
    /\ Len(rg.node[rg.order[f.idx]].job_list) < 1

\* line 185 fails: recipe_graph.graph has no key "root"
NoRootKey(rg, f) ==
    /\ f.pc = "loop"
    /\ f.idx <= Len(rg.order)
    /\ ~NoSubJobs(rg, f)
    /\ "root" \notin DOMAIN rg.graph

\* one pass of the loop body runs to its end
BodyRuns(rg, f) ==
    /\ f.pc = "loop"
    /\ f.idx <= Len(rg.order)
    /\ ~NoSubJobs(rg, f)
    /\ "root" \in DOMAIN rg.graph

\* lines 177-186 for the recipe at f.idx
LoopBody(rg, f) ==
    LET copy_identifier == rg.order[f.idx]
        job_list == rg.node[copy_identifier].job_list
        G1 == AddRecipeJobs(f.job_graph, job_list)
        re1 == DictSet(f.recipe_edges, copy_identifier, Boundary(job_list))
    IN IF "root" \notin DOMAIN rg.graph
       THEN Frame(G1, re1, f.idx, "raised", "KeyError")
       ELSE IF RecipeEq(copy_identifier, rg.graph["root"])
            THEN Frame([G1 EXCEPT !.graph = DictSet(G1.graph, "root", RootJob(JobIdsOf(job_list)))],
                       re1, f.idx + 1, "loop", "none")
            ELSE Frame(G1, re1, f.idx + 1, "loop", "none")

\* one step of recipe_graph_to_job_graph
CompileStep(rg, f) ==
    CASE f.pc = "loop" /\ f.idx <= Len(rg.order) ->
            IF NoSubJobs(rg, f)
            THEN [f EXCEPT !.pc = "raised", !.exc = "RuntimeError"]
            ELSE LoopBody(rg, f)
      [] f.pc = "loop" /\ f.idx > Len(rg.order) ->
            \* line 188
            IF "root" \in DOMAIN f.job_graph.graph
            THEN [f EXCEPT !.pc = "edges"]
            ELSE [f EXCEPT !.pc = "raised", !.exc = "AssertionError"]
      [] f.pc = "edges" ->
            \* lines 189-193
            [f EXCEPT !.job_graph = add_edges_from(f.job_graph,
                                       CrossEdges(rg.edges, f.recipe_edges)),
                      !.pc = "returned"]
      [] OTHER -> f

\* recipe_graph_to_job_graph run to its end
RECURSIVE RunCompiler(_, _)
RunCompiler(rg, f) ==
    IF f.pc \in {"returned", "raised"} THEN f ELSE RunCompiler(rg, CompileStep(rg, f))

recipe_graph_to_job_graph(rg) == RunCompiler(rg, StartFrame)

(***************************************************************************)
(* The compiler as a state machine: one action per pass of the loop and    *)
(* per statement after it.                                                 *)
(***************************************************************************)
CurFrame == Frame(job_graph, recipe_edges, idx, pc, exc)

SetFrame(f) ==
    /\ job_graph' = f.job_graph
    /\ recipe_edges' = f.recipe_edges
    /\ idx' = f.idx
    /\ pc' = f.pc
    /\ exc' = f.exc

IdleSelect ==
    /\ args = Nothing
    /\ argv = Nothing
    /\ sub_graph = Nothing

IdleIdent ==
    /\ raw = Nothing
    /\ rid = Nothing
    /\ jidA = Nothing
    /\ jidB = Nothing
    /\ ctor = "none"
    /\ made = Nothing
    /\ cmp = Nothing

IdleJob ==
    /\ job = Nothing
    /\ validated = Nothing
    /\ mocked = Nothing
    /\ outcome = Nothing

IdleFile ==
    /\ table_data = [order |-> << >>, map |-> EmptyDict]
    /\ table_hash = EmptyDict
    /\ db = EmptyDict
    /\ attrs = EmptyDict
    /\ last = Nothing

IdleRun ==
    /\ artifacts = {}
    /\ ran = {}
    /\ run_exc = "none"

Init ==
    /\ \E order \in UNION {Orders(S) : S \in SUBSET RecipeNodes} :
       \E names \in [1..Len(order) -> NameLists] :
       \E edges \in SUBSET (Range(order) \X Range(order)) :
       \E graph \in RecipeGraphAttrs :
          recipe_graph = RecipeGraphOf(order, names, edges, graph)
    /\ job_graph = StartFrame.job_graph
    /\ recipe_edges = StartFrame.recipe_edges
    /\ idx = StartFrame.idx
    /\ pc = StartFrame.pc
    /\ exc = StartFrame.exc
    /\ IdleSelect
    /\ IdleIdent
    /\ IdleJob
    /\ IdleFile
    /\ IdleRun

\* lines 173-176: raise RuntimeError for a recipe without jobs
RaiseNoSubJobs ==
    /\ NoSubJobs(recipe_graph, CurFrame)
    /\ SetFrame(CompileStep(recipe_graph, CurFrame))
    /\ UNCHANGED <<recipe_graph, selectVars, identVars, jobVars, fileVars, runVars>>

\* lines 177-185: the jobs are added, then graph["root"] is a missing key
RaiseKeyError ==
    /\ NoRootKey(recipe_graph, CurFrame)
    /\ SetFrame(CompileStep(recipe_graph, CurFrame))
    /\ UNCHANGED <<recipe_graph, selectVars, identVars, jobVars, fileVars, runVars>>

\* lines 177-186: one recipe compiled
ProcessRecipe ==
    /\ BodyRuns(recipe_graph, CurFrame)
    /\ SetFrame(CompileStep(recipe_graph, CurFrame))
    /\ UNCHANGED <<recipe_graph, selectVars, identVars, jobVars, fileVars, runVars>>

\* line 188, the assertion holds
AssertRootHolds ==
    /\ pc = "loop"
    /\ idx > Len(recipe_graph.order)
    /\ "root" \in DOMAIN job_graph.graph
    /\ SetFrame(CompileStep(recipe_graph, CurFrame))
    /\ UNCHANGED <<recipe_graph, selectVars, identVars, jobVars, fileVars, runVars>>

\* line 188, the assertion fails
AssertRootFails ==
    /\ pc = "loop"
    /\ idx > Len(recipe_graph.order)
    /\ "root" \notin DOMAIN job_graph.graph
    /\ SetFrame(CompileStep(recipe_graph, CurFrame))
    /\ UNCHANGED <<recipe_graph, selectVars, identVars, jobVars, fileVars, runVars>>

\* lines 189-193: the edges between recipes, and the return
AddRecipeEdges ==
    /\ pc = "edges"
    /\ SetFrame(CompileStep(recipe_graph, CurFrame))
    /\ UNCHANGED <<recipe_graph, selectVars, identVars, jobVars, fileVars, runVars>>

Next ==
    \/ RaiseNoSubJobs
    \/ RaiseKeyError
    \/ ProcessRecipe
    \/ AssertRootHolds
    \/ AssertRootFails
    \/ AddRecipeEdges

Spec == Init /\ [][Next]_vars

(***************************************************************************)
(* The identity model as a state machine: identifiers are constructed from *)
(* fields a caller supplies, and two JobIdentifiers are compared.          *)
(***************************************************************************)
\* no compiler runs
IdleCompiler ==
    /\ recipe_graph = RecipeGraphOf(<< >>, << >>, {}, EmptyDict)
    /\ job_graph = DiGraph
    /\ recipe_edges = EmptyDict
    /\ idx = 0
    /\ pc = "idle"
    /\ exc = "none"

InitIdent == IdleCompiler /\ IdleSelect /\ IdleIdent /\ IdleJob /\ IdleFile /\ IdleRun

\* The scenario: RecipeIdentifiers are made, then a first JobIdentifier
\* (jidA), then a second (jidB), and the two are compared.

\* RecipeIdentifier(location_id, recipe, sex)
NewRecipeIdentifier ==
    /\ jidA = Nothing
    /\ \E f \in RawFields :
        LET r == RecipeIdentifier(f.location_id, f.recipe, f.sex)
        IN /\ raw' = Some(f)
           /\ ctor' = r.exc
           /\ made' = r.obj
           /\ rid' = IF r.exc = "none" THEN r.obj ELSE rid
           /\ UNCHANGED <<jidA, jidB, cmp>>
           /\ UNCHANGED <<compilerVars, selectVars, jobVars, fileVars, runVars>>

\* where the JobIdentifier a constructor call made is kept
KeepJobIdentifier(r) ==
    /\ jidB = Nothing
    /\ jidA' = IF jidA = Nothing /\ r.exc = "none" THEN r.obj ELSE jidA
    /\ jidB' = IF jidA # Nothing /\ r.exc = "none" THEN r.obj ELSE jidB

\* JobIdentifier(recipe_identifier, name) on the RecipeIdentifier made
\* before, as CascadeJob.job_identifier calls it
NewJobIdentifier ==
    /\ rid # Nothing
    /\ \E name \in JobNames :
        LET r == JobIdentifier(rid[1], name)
        IN /\ raw' = Some(rid[1])
           /\ ctor' = r.exc
           /\ made' = r.obj
           /\ KeepJobIdentifier(r)
           /\ UNCHANGED <<rid, cmp>>
           /\ UNCHANGED <<compilerVars, selectVars, jobVars, fileVars, runVars>>

\* JobIdentifier(recipe_identifier, name) on any object that has the three
\* attributes: __init__ reads them and hands them to RecipeIdentifier.__init__
NewJobIdentifierFromFields ==
    \E f \in RawFields, name \in JobNames :
        LET r == JobIdentifier(f, name)
        IN /\ raw' = Some(f)
           /\ ctor' = r.exc
           /\ made' = r.obj
           /\ KeepJobIdentifier(r)
           /\ UNCHANGED <<rid, cmp>>
           /\ UNCHANGED <<compilerVars, selectVars, jobVars, fileVars, runVars>>

\* jidA == jidB, jidB == jidA, each with itself, and the two hashes
Compare ==
    /\ jidA # Nothing
    /\ jidB # Nothing
    /\ cmp = Nothing
    /\ cmp' = Some([a_eq_b |-> JobEq(jidA[1], jidB[1]),
                    b_eq_a |-> JobEq(jidB[1], jidA[1]),
                    a_eq_a |-> JobEq(jidA[1], jidA[1]),
                    b_eq_b |-> JobEq(jidB[1], jidB[1]),
                    hash_a |-> JobHash(jidA[1]),
                    hash_b |-> JobHash(jidB[1])])
    /\ UNCHANGED <<raw, rid, jidA, jidB, ctor, made>>
    /\ UNCHANGED <<compilerVars, selectVars, jobVars, fileVars, runVars>>

NextIdent ==
    \/ NewRecipeIdentifier
    \/ NewJobIdentifier
    \/ NewJobIdentifierFromFields
    \/ Compare

SpecIdent == InitIdent /\ [][NextIdent]_vars

(***************************************************************************)
(* Sub-graph selection: Application.add_arguments and                      *)
(* Application.sub_graph_to_run.                                           *)
(***************************************************************************)
\* Python values of different types meet in the comparison of line 184, so
\* the values of a Namespace carry their type
PyNone == [t |-> "NoneType"]
PyInt(v) == [t |-> "int", v |-> v]
PyStr(v) == [t |-> "str", v |-> v]

\* a == b on such values
PyEq(a, b) == a.t = b.t /\ (a.t = "NoneType" \/ a.v = b.v)

\* int(text) for the texts that occur
ParseInt(text) ==
    CASE text = "1" -> 1
      [] text = "2" -> 2

\* line 182: the attributes the selection looks at, in this order
SearchOrder == <<"location_id", "recipe", "sex", "name">>

\* lines 128-131: the four options of the sub_graph group.  None of them has
\* a default, so argparse sets the attribute of an option that is not given
\* to None; --location-id has type=int, the others type=str.
ParsedNamespace(given) ==
    [dest \in Range(SearchOrder) |->
        IF dest \in DOMAIN given
        THEN IF dest = "location_id"
             THEN PyInt(ParseInt(given[dest]))
             ELSE PyStr(given[dest])
        ELSE PyNone]

\* getattr(n, search) of a JobIdentifier
NodeAttr(n, search) ==
    IF search = "location_id" THEN PyInt(n[search]) ELSE PyStr(n[search])

\* lines 182-184: the loop over the four attributes, from the k-th on
RECURSIVE FilterNodes(_, _, _)
FilterNodes(nodes, ns, k) ==
    IF k > Len(SearchOrder) THEN nodes
    ELSE LET search == SearchOrder[k]
         IN IF search \in DOMAIN ns
            THEN FilterNodes({n \in nodes : PyEq(NodeAttr(n, search), ns[search])}, ns, k + 1)
            ELSE FilterNodes(nodes, ns, k + 1)

\* a plausible slip in line 186: an edge kept when either end is selected
subgraphEitherEnd(G, nodes) ==
    LET kept == (DOMAIN G.node) \cap nodes
    IN [node |-> [n \in kept |-> G.node[n]],
        edges |-> {e \in G.edges : e[1] \in kept \/ e[2] \in kept},
        graph |-> G.graph]

\* line 186: nx.subgraph(G, nodes) is a view of G: the nodes of G among
\* nodes, the edges of G between them, the attribute dicts of G itself
subgraph(G, nodes) ==
    LET kept == (DOMAIN G.node) \cap nodes
    IN [node |-> [n \in kept |-> G.node[n]],
        edges |-> {e \in G.edges : e[1] \in kept /\ e[2] \in kept},
        graph |-> G.graph]

\* str(n) of an int that is not negative: its decimal digits
DecimalDigits == <<"0", "1", "2", "3", "4", "5", "6", "7", "8", "9">>

RECURSIVE IntStr(_)
IntStr(n) ==
    IF n < 10 THEN DecimalDigits[n + 1]
    ELSE IntStr(n \div 10) \o DecimalDigits[(n % 10) + 1]

\* a plausible slip in line 87: the fields in the order of another convention
JobIdentifierStrSexFirst(self) ==
    IntStr(self.location_id) \o "_" \o self.sex \o "_" \o self.recipe
        \o "_" \o self.name

\* JobIdentifier.__str__, lines 86-87
JobIdentifierStr(self) ==
    IntStr(self.location_id) \o "_" \o self.recipe \o "_" \o self.sex
        \o "_" \o self.name

\* a plausible slip in lines 92-95: the values of recipe and sex exchanged
argumentsSexForRecipe(self) ==
    <<"--location-id", IntStr(self.location_id), "--recipe", self.sex,
      "--sex", self.recipe, "--name", self.name>>

\* JobIdentifier.arguments, lines 89-95: str of a flag, a recipe, a sex or a
\* name is the string itself, str of the location id its decimal digits
arguments(self) ==
    <<"--location-id", IntStr(self.location_id), "--recipe", self.recipe,
      "--sex", self.sex, "--name", self.name>>

\* lines 128-131: the attribute an option of the sub_graph group is stored in
FlagDest(flag) ==
    CASE flag = "--location-id" -> "location_id"
      [] flag = "--sex" -> "sex"
      [] flag = "--recipe" -> "recipe"
      [] flag = "--name" -> "name"

\* the options given by an argument vector of flags, each followed by its
\* value: attribute -> text of the value
OptionsOf(vector) ==
    LET k == Len(vector) \div 2
        at(dest) == CHOOSE i \in 1..k : FlagDest(vector[2 * i - 1]) = dest
    IN [dest \in {FlagDest(vector[2 * i - 1]) : i \in 1..k} |-> vector[2 * at(dest)]]

\* self.execution_context of the Application
ExecutionContext == "execution_context"

\* lines 178-188.  The result holds the parent graph after the call and the
\* sub-graph returned: the assignment of line 187 writes into the dict that
\* the view shares with its parent.
sub_graph_to_run(G, ns) ==
    LET nodes == FilterNodes(DOMAIN G.node, ns, 1)
        view == subgraph(G, nodes)
        shared == DictSet(view.graph, "execution_context", ExecutionContext)
    IN [parent |-> [G EXCEPT !.graph = shared],
        sub_graph |-> [view EXCEPT !.graph = shared]]

\* what a caller can give for the four options on the command line
GivenTexts(dest) ==
    CASE dest = "location_id" -> {"1", "2"}
      [] dest = "recipe" -> RecipeNames
      [] dest = "sex" -> {"male", "both"}
      [] dest = "name" -> JobNames

\* the command lines: any of the four options, each given at most once
CommandLines ==
    LET texts == UNION {GivenTexts(d) : d \in Range(SearchOrder)}
    IN UNION {{g \in [D -> texts] : \A d \in D : g[d] \in GivenTexts(d)} :
                 D \in SUBSET Range(SearchOrder)}

\* job lists in which no name occurs twice
DistinctNameLists == {l \in NameLists : Len(l) >= 1 /\ Cardinality(Range(l)) = Len(l)}

\* graph_of_jobs(args), line 179: the job graph of a run, compiled from a
\* recipe graph whose first recipe is the root and whose jobs are distinct
InitSelect ==
    /\ \E order \in UNION {Orders(S) : S \in (SUBSET RecipeNodes) \ {{}}} :
       \E names \in [1..Len(order) -> DistinctNameLists] :
       \E edges \in SUBSET (Range(order) \X Range(order)) :
          /\ recipe_graph = RecipeGraphOf(order, names, edges, [root |-> order[1]])
          /\ LET f == recipe_graph_to_job_graph(
                          RecipeGraphOf(order, names, edges, [root |-> order[1]]))
             IN /\ job_graph = f.job_graph
                /\ recipe_edges = f.recipe_edges
                /\ idx = f.idx
                /\ pc = f.pc
                /\ exc = f.exc
    /\ IdleSelect
    /\ IdleIdent
    /\ IdleJob
    /\ IdleFile
    /\ IdleRun

\* the options are parsed by the parser of add_arguments
ParseCommandLine ==
    /\ args = Nothing
    /\ \E given \in CommandLines :
          /\ argv' = Some(given)
          /\ args' = Some(ParsedNamespace(given))
    /\ UNCHANGED <<sub_graph, compilerVars, identVars, jobVars, fileVars, runVars>>

\* the caller builds the Namespace itself, with the attributes it wants
BuildNamespace ==
    /\ args = Nothing
    /\ \E given \in CommandLines :
          /\ argv' = Nothing
          /\ args' = Some([d \in DOMAIN given |-> ParsedNamespace(given)[d]])
    /\ UNCHANGED <<sub_graph, compilerVars, identVars, jobVars, fileVars, runVars>>

\* Application.sub_graph_to_run(args)
SubGraphToRun ==
    /\ args # Nothing
    /\ sub_graph = Nothing
    /\ LET r == sub_graph_to_run(job_graph, args[1])
       IN /\ sub_graph' = Some(r.sub_graph)
          /\ job_graph' = r.parent
    /\ UNCHANGED <<args, argv, recipe_graph, recipe_edges, idx, pc, exc, identVars,
                   jobVars, fileVars, runVars>>

NextSelect ==
    \/ ParseCommandLine
    \/ BuildNamespace
    \/ SubGraphToRun

SpecSelect == InitSelect /\ [][NextSelect]_vars

(***************************************************************************)
(* Specification of a single CascadeJob: it is constructed, its input and  *)
(* output entities are declared, and one of mock_run, input_missing and    *)
(* output_missing is called on it.                                         *)
(***************************************************************************)
\* names under which a job declares its entities
InputNames == {"parent_fit", "data"}
OutputNames == {"fit", "draws"}

\* the descriptions validate gives of an entity that is not satisfied
Reasons == {"file missing", "wrong shape"}

\* an entity of the job: validate tells what entity.validate(context)
\* returns, Nothing for None and Some(description) otherwise
Entities == [validate : {Nothing} \cup {Some(d) : d \in Reasons}]

\* the dicts name -> entity over some of the names
EntityDicts(names) == UNION {[S -> Entities] : S \in SUBSET names}

\* no call received yet by the entities of dict d
NoCalls(d) == [n \in DOMAIN d |-> 0]

\* one more call received by every entity named in the sequence
RECURSIVE Called(_, _)
Called(calls, names) ==
    IF names = << >> THEN calls
    ELSE Called([calls EXCEPT ![Head(names)] = @ + 1], Tail(names))

\* a plausible slip in lines 155-158: the pass stops at the first entity
\* that is not satisfied
RECURSIVE entity_missingFirstOnly(_, _, _)
entity_missingFirstOnly(inputs_outputs, items, fr) ==
    IF items = << >> \/ DOMAIN fr.not_ready # {} THEN fr
    ELSE LET name == Head(items)
             validation == inputs_outputs[name].validate
             seen == [fr EXCEPT !.calls = Append(@, name)]
         IN entity_missingFirstOnly(inputs_outputs, Tail(items),
                IF validation # Nothing
                THEN [seen EXCEPT !.not_ready = DictSet(@, name, validation[1])]
                ELSE seen)

\* lines 153-159, the loop over inputs_outputs.items(): items are the names
\* still to visit, fr.not_ready the dict built so far and fr.calls the
\* entities whose validate was called so far
RECURSIVE entity_missing(_, _, _)
entity_missing(inputs_outputs, items, fr) ==
    IF items = << >> THEN fr
    ELSE LET name == Head(items)
             validation == inputs_outputs[name].validate
             seen == [fr EXCEPT !.calls = Append(@, name)]
         IN entity_missing(inputs_outputs, Tail(items),
                IF validation # Nothing
                THEN [seen EXCEPT !.not_ready = DictSet(@, name, validation[1])]
                ELSE seen)

\* line 154 and the call of lines 153-159 on a dict
EntityMissing(inputs_outputs) ==
    entity_missing(inputs_outputs, SeqOf(DOMAIN inputs_outputs),
                   [not_ready |-> EmptyDict, calls |-> << >>])

\* lines 147-148
input_missing(self) == EntityMissing(self.inputs)

\* lines 150-151
output_missing(self) == EntityMissing(self.outputs)

\* a plausible slip in lines 144-145: the first output left out
MockOutputsButFirst(self) ==
    IF DOMAIN self.outputs = {} THEN << >> ELSE Tail(SeqOf(DOMAIN self.outputs))

\* a plausible slip in lines 144-145: only the outputs that do not validate
\* are mocked
MockOutputsOfMissing(self) ==
    SeqOf({n \in DOMAIN self.outputs : self.outputs[n].validate # Nothing})

\* lines 144-145: the outputs whose mock is called, in the order of the calls
MockOutputs(self) == SeqOf(DOMAIN self.outputs)

\* a plausible slip in lines 139-143: the missing inputs are logged but the
\* outputs are mocked all the same
mock_runLogsOnly(self, check_inputs) ==
    LET m == input_missing(self)
    IN IF check_inputs
       THEN [exc |-> "none", value |-> Nothing,
             validate |-> m.calls, mock |-> MockOutputs(self)]
       ELSE [exc |-> "none", value |-> Nothing,
             validate |-> << >>, mock |-> MockOutputs(self)]

\* lines 138-145.  exc is the exception raised, value its argument, validate
\* the inputs whose validate was called and mock the outputs whose mock was
\* called.
mock_run(self, check_inputs) ==
    LET m == input_missing(self)
    IN IF check_inputs
       THEN IF DOMAIN m.not_ready # {}
            THEN [exc |-> "RuntimeError", value |-> Some(m.not_ready),
                  validate |-> m.calls, mock |-> << >>]
            ELSE [exc |-> "none", value |-> Nothing,
                  validate |-> m.calls, mock |-> MockOutputs(self)]
       ELSE [exc |-> "none", value |-> Nothing,
             validate |-> << >>, mock |-> MockOutputs(self)]

InitJob == IdleCompiler /\ IdleSelect /\ IdleIdent /\ IdleJob /\ IdleFile /\ IdleRun

\* CascadeJob(name, recipe_identifier, local_settings)
NewCascadeJob ==
    /\ job = Nothing
    /\ \E name \in JobNames, r \in RecipeIdentifiers,
          local_settings \in LocalSettingsGiven :
          job' = Some(CascadeJob(name, r, local_settings, 0))
    /\ UNCHANGED <<validated, mocked, outcome>>
    /\ UNCHANGED <<compilerVars, selectVars, identVars, fileVars, runVars>>

\* the entities of the job are put into self.inputs and self.outputs
DeclareEntities ==
    /\ job # Nothing
    /\ mocked = Nothing
    /\ \E ins \in EntityDicts(InputNames), outs \in EntityDicts(OutputNames) :
          /\ job' = Some([job[1] EXCEPT !.inputs = ins, !.outputs = outs])
          /\ validated' = Some([inputs |-> NoCalls(ins), outputs |-> NoCalls(outs)])
          /\ mocked' = Some(NoCalls(outs))
    /\ UNCHANGED outcome
    /\ UNCHANGED <<compilerVars, selectVars, identVars, fileVars, runVars>>

\* job.mock_run(execution_context, check_inputs)
MockRun ==
    /\ mocked # Nothing
    /\ outcome = Nothing
    /\ \E check_inputs \in BOOLEAN :
          LET r == mock_run(job[1], check_inputs)
          IN /\ outcome' = Some([call |-> "mock_run", check_inputs |-> check_inputs,
                                 exc |-> r.exc, value |-> r.value])
             /\ validated' = Some([validated[1] EXCEPT
                                      !.inputs = Called(@, r.validate)])
             /\ mocked' = Some(Called(mocked[1], r.mock))
    /\ UNCHANGED job
    /\ UNCHANGED <<compilerVars, selectVars, identVars, fileVars, runVars>>

\* job.input_missing(execution_context)
InputMissing ==
    /\ mocked # Nothing
    /\ outcome = Nothing
    /\ LET r == input_missing(job[1])
       IN /\ outcome' = Some([call |-> "input_missing", check_inputs |-> FALSE,
                              exc |-> "none", value |-> Some(r.not_ready)])
          /\ validated' = Some([validated[1] EXCEPT !.inputs = Called(@, r.calls)])
    /\ UNCHANGED <<job, mocked>>
    /\ UNCHANGED <<compilerVars, selectVars, identVars, fileVars, runVars>>

\* job.output_missing(execution_context)
OutputMissing ==
    /\ mocked # Nothing
    /\ outcome = Nothing
    /\ LET r == output_missing(job[1])
       IN /\ outcome' = Some([call |-> "output_missing", check_inputs |-> FALSE,
                              exc |-> "none", value |-> Some(r.not_ready)])
          /\ validated' = Some([validated[1] EXCEPT !.outputs = Called(@, r.calls)])
    /\ UNCHANGED <<job, mocked>>
    /\ UNCHANGED <<compilerVars, selectVars, identVars, fileVars, runVars>>

\* str(job.job_identifier)
StrOfJobIdentifier ==
    /\ job # Nothing
    /\ outcome = Nothing
    /\ outcome' = Some([call |-> "__str__", check_inputs |-> FALSE, exc |-> "none",
                        value |-> Some(JobIdentifierStr(job_identifier(job[1])))])
    /\ UNCHANGED <<job, validated, mocked>>
    /\ UNCHANGED <<compilerVars, selectVars, identVars, fileVars, runVars>>

NextJob ==
    \/ NewCascadeJob
    \/ DeclareEntities
    \/ MockRun
    \/ InputMissing
    \/ OutputMissing
    \/ StrOfJobIdentifier

SpecJob == InitJob /\ [][NextJob]_vars

(***************************************************************************)
(* Specification of a DismodFile: tables are read through __getattr__,     *)
(* assigned through __setattr__, changed in place by their holder, and     *)
(* written by flush.                                                       *)
(***************************************************************************)
\* the tables of self._table_definitions
TableNames == {"age", "time"}

\* attribute names that are no tables: engine is set by __init__ (line 57),
\* no_such_table is never set
OtherNames == {"engine", "no_such_table"}

\* the sqlalchemy engine handed to __init__
TheEngine == [connect |-> "sqlite"]

\* a DataFrame has columns and, under its index, rows of values: the two
\* column layouts and the two row contents that occur
ColumnLayouts == {"columns_a", "columns_b"}
RowContents == {"rows_a", "rows_b"}

\* what a table of the database holds
Contents == [cols : ColumnLayouts, vals : RowContents]

\* a DataFrame object: readonly is its attribute __readonly__, Nothing when
\* the object has no such attribute
DataFrames == [cols : ColumnLayouts, vals : RowContents,
               readonly : {Nothing, Some(TRUE), Some(FALSE)}]

\* what to_sql stores of a DataFrame and read_sql_query gives back
ContentOf(df) == [cols |-> df.cols, vals |-> df.vals]

\* pd.util.hash_pandas_object(table): one hash per row, made of the index
\* and of the values of the row; the names of the columns and the
\* attributes of the object do not enter it
hash_pandas_object(df) == [rows |-> df.vals]

\* a dict that keeps the order in which its keys were inserted
DictPut(d, k, v) ==
    [order |-> IF k \in Range(d.order) THEN d.order ELSE Append(d.order, k),
     map |-> DictSet(d.map, k, v)]

\* a plausible slip in lines 109-115: a table in memory always counts as
\* changed
is_dirtyAlways(data, hashes, table_name) == table_name \in DOMAIN data.map

\* DismodFile._is_dirty, lines 99-115
is_dirty(data, hashes, table_name) ==
    IF table_name \notin DOMAIN data.map THEN FALSE
    ELSE LET table == data.map[table_name]
             hashed == hash_pandas_object(table)
             is_new == table_name \notin DOMAIN hashes
             is_changed == IF ~is_new THEN hashes[table_name] # hashed ELSE FALSE
         IN is_new \/ is_changed

\* line 124
IsReadOnly(table) == table.readonly # Nothing /\ table.readonly[1]

\* lines 122-139, the loop of flush over self._table_data.items(): items are
\* the tables still to visit; fr holds the database, self._table_hash, the
\* tables written so far and the exception raised
RECURSIVE FlushLoop(_, _, _)
FlushLoop(data, items, fr) ==
    IF items = << >> THEN fr
    ELSE LET table_name == Head(items)
             table == data.map[table_name]
         IN IF is_dirty(data, fr.table_hash, table_name)
            THEN IF IsReadOnly(table)
                 THEN [fr EXCEPT !.exc = "DismodFileError", !.table = Some(table_name)]
                 ELSE FlushLoop(data, Tail(items),
                        [fr EXCEPT !.db = DictSet(@, table_name, ContentOf(table)),
                                   !.table_hash = DictSet(@, table_name,
                                                          hash_pandas_object(table)),
                                   !.written = Append(@, table_name)])
            ELSE FlushLoop(data, Tail(items), fr)

\* the values a caller assigns to dm.engine: an engine, or by mistake a
\* DataFrame, which has no method connect
EngineValues ==
    {TheEngine, [cols |-> "columns_a", vals |-> "rows_a", readonly |-> Nothing]}

\* self.engine.connect() of lines 84 and 121 can be called
HasConnect(engine) == engine = TheEngine

\* DismodFile.flush, lines 117-139: line 121 raises AttributeError when
\* self.engine has no connect, before a table is looked at
flush(engine, data, hashes, database) ==
    IF HasConnect(engine)
    THEN FlushLoop(data, data.order,
                   [db |-> database, table_hash |-> hashes, written |-> << >>,
                    exc |-> "none", table |-> Nothing])
    ELSE [db |-> database, table_hash |-> hashes, written |-> << >>,
          exc |-> "AttributeError", table |-> Nothing]

\* a DismodFile on a database in which create_tables made every table
InitFile ==
    /\ IdleCompiler /\ IdleSelect /\ IdleIdent /\ IdleJob /\ IdleRun
    /\ table_data = [order |-> << >>, map |-> EmptyDict]
    /\ table_hash = EmptyDict
    /\ db \in [TableNames -> Contents]
    /\ attrs = [engine |-> TheEngine]
    /\ last = Nothing

\* the read dm.<table_name>: an attribute of the instance is returned as it
\* is; for any other name Python calls __getattr__, lines 79-91
GetAttr ==
    /\ \E table_name \in TableNames \cup OtherNames :
          IF table_name \in DOMAIN attrs
          THEN /\ last' = Some([op |-> "attribute", table |-> Some(table_name),
                                exc |-> "none", written |-> << >>])
               /\ UNCHANGED <<table_data, table_hash>>
          ELSE IF table_name \in DOMAIN table_data.map
          THEN /\ last' = Some([op |-> "__getattr__", table |-> Some(table_name),
                                exc |-> "none", written |-> << >>])
               /\ UNCHANGED <<table_data, table_hash>>
          ELSE IF table_name \in TableNames
          THEN IF HasConnect(attrs["engine"])
               THEN LET data == [cols |-> db[table_name].cols,
                                 vals |-> db[table_name].vals,
                                 readonly |-> Nothing]
                    IN /\ table_hash' = DictSet(table_hash, table_name,
                                                hash_pandas_object(data))
                       /\ table_data' = DictPut(table_data, table_name, data)
                       /\ last' = Some([op |-> "__getattr__",
                                        table |-> Some(table_name),
                                        exc |-> "none", written |-> << >>])
               ELSE \* line 84: self.engine has no connect
                    /\ last' = Some([op |-> "__getattr__", table |-> Some(table_name),
                                     exc |-> "AttributeError", written |-> << >>])
                    /\ UNCHANGED <<table_data, table_hash>>
          ELSE \* line 91
               /\ last' = Some([op |-> "__getattr__", table |-> Some(table_name),
                                exc |-> "AttributeError", written |-> << >>])
               /\ UNCHANGED <<table_data, table_hash>>
    /\ UNCHANGED <<db, attrs>>
    /\ UNCHANGED <<compilerVars, selectVars, identVars, jobVars, runVars>>

\* dm.<table_name> = df, lines 93-97: a table goes into self._table_data,
\* anything else becomes an attribute of the instance
SetAttr ==
    /\ \/ \E table_name \in TableNames, df \in DataFrames :
             /\ table_data' = DictPut(table_data, table_name, df)
             /\ last' = Some([op |-> "__setattr__", table |-> Some(table_name),
                              exc |-> "none", written |-> << >>])
             /\ UNCHANGED attrs
       \/ \E value \in EngineValues :
             /\ attrs' = DictSet(attrs, "engine", value)
             /\ last' = Some([op |-> "__setattr__", table |-> Some("engine"),
                              exc |-> "none", written |-> << >>])
             /\ UNCHANGED table_data
    /\ UNCHANGED <<table_hash, db>>
    /\ UNCHANGED <<compilerVars, selectVars, identVars, jobVars, runVars>>

\* the holder of a DataFrame of self._table_data changes the object in
\* place: its values, its columns or its attribute __readonly__
ChangeInPlace ==
    /\ \E table_name \in DOMAIN table_data.map, df \in DataFrames :
          /\ df # table_data.map[table_name]
          /\ table_data' = [table_data EXCEPT !.map[table_name] = df]
          /\ last' = Some([op |-> "in place", table |-> Some(table_name),
                           exc |-> "none", written |-> << >>])
    /\ UNCHANGED <<table_hash, db, attrs>>
    /\ UNCHANGED <<compilerVars, selectVars, identVars, jobVars, runVars>>

\* dm.flush()
Flush ==
    /\ LET r == flush(attrs["engine"], table_data, table_hash, db)
       IN /\ db' = r.db
          /\ table_hash' = r.table_hash
          /\ last' = Some([op |-> "flush", table |-> r.table, exc |-> r.exc,
                           written |-> r.written])
    /\ UNCHANGED <<table_data, attrs>>
    /\ UNCHANGED <<compilerVars, selectVars, identVars, jobVars, runVars>>

NextFile ==
    \/ GetAttr
    \/ SetAttr
    \/ ChangeInPlace
    \/ Flush

SpecFile == InitFile /\ [][NextFile]_vars

(***************************************************************************)
(* Specification of a mock run of a compiled job graph: the jobs declare   *)
(* entities that stand for artifacts of the execution context, and         *)
(* mock_run is called on the jobs, with the check of the inputs, in an     *)
(* order consistent with the edges of the graph.                           *)
(***************************************************************************)
\* the artifact a job can produce
ArtifactOf(n) == <<n.location_id, n.name>>

\* an entity for an artifact
EntityFor(artifact) == [artifact |-> artifact]

\* entity.validate(execution_context): None when the artifact exists, a
\* description otherwise
EntityValidate(entity, existing) ==
    IF entity.artifact \in existing THEN Nothing ELSE Some("file missing")

\* entity.mock(execution_context): the artifact exists afterwards
EntityMock(entity, existing) == existing \cup {entity.artifact}

\* the entities for a set of artifacts, as a dict keyed by the artifact
EntitiesFor(S) == [a \in S |-> EntityFor(a)]

\* what the jobs of a graph may declare: as outputs the job's own artifact
\* or nothing, as inputs the artifact of one other job of the graph or
\* nothing (feeder[n] = n)
Declarations(nodes) ==
    {[n \in nodes |->
        [inputs |-> IF feeder[n] = n THEN EntitiesFor({})
                    ELSE EntitiesFor({ArtifactOf(feeder[n])}),
         outputs |-> IF makes[n] THEN EntitiesFor({ArtifactOf(n)})
                     ELSE EntitiesFor({})]] :
        feeder \in [nodes -> nodes], makes \in [nodes -> BOOLEAN]}

\* the job graph with the entities put into the inputs and outputs of its jobs
Declared(G, decl) ==
    [G EXCEPT !.node = [n \in DOMAIN G.node |->
        [G.node[n] EXCEPT !["job"] =
            [@ EXCEPT !.inputs = decl[n].inputs, !.outputs = decl[n].outputs]]]]

\* the recipe graph as it reads once the jobs of the job graph G hold their
\* entities: a node of G holds the very job of the job list (line 179,
\* dict(job=add_job)), so the list shows the same inputs and outputs; a job
\* of a list that is on no node of G is as it was
DeclaredLists(rg, G) ==
    LET OnNode(j) == {n \in DOMAIN G.node : G.node[n]["job"].oid = j.oid}
        Shown(j) == IF OnNode(j) = {} THEN j
                    ELSE G.node[CHOOSE n \in OnNode(j) : TRUE]["job"]
    IN [rg EXCEPT !.node = [r \in DOMAIN rg.node |->
           [rg.node[r] EXCEPT !.job_list =
               [k \in 1..Len(rg.node[r].job_list) |-> Shown(rg.node[r].job_list[k])]]]]

\* the job as mock_run finds it: what validate of each of its entities
\* returns with the artifacts that exist
JobNow(self, existing) ==
    [self EXCEPT
        !.inputs = [k \in DOMAIN self.inputs |->
                       [validate |-> EntityValidate(self.inputs[k], existing)]],
        !.outputs = [k \in DOMAIN self.outputs |->
                       [validate |-> EntityValidate(self.outputs[k], existing)]]]

\* the artifacts after the calls of mock on the named outputs of the job
RECURSIVE AfterMocks(_, _, _)
AfterMocks(self, names, existing) ==
    IF names = << >> THEN existing
    ELSE AfterMocks(self, Tail(names), EntityMock(self.outputs[Head(names)], existing))

\* the job lists of the recipes of a mock run: one job or two
RunNameLists == {<<"fit">>, <<"fit", "compute_draws_from_parent_fit">>}

\* the job graph of the run is compiled from a recipe graph of one recipe,
\* or of two recipes with or without the edge from the first to the second
InitRun ==
    /\ \E order \in UNION {Orders(S) : S \in (SUBSET RecipeNodes) \ {{}}} :
       \E names \in [1..Len(order) -> RunNameLists] :
       \E edges \in SUBSET {<<order[1], order[Len(order)]>>} :
          /\ recipe_graph = RecipeGraphOf(order, names,
                               {e \in edges : e[1] # e[2]}, [root |-> order[1]])
          /\ LET f == recipe_graph_to_job_graph(
                          RecipeGraphOf(order, names,
                               {e \in edges : e[1] # e[2]}, [root |-> order[1]]))
             IN /\ job_graph = f.job_graph
                /\ recipe_edges = f.recipe_edges
                /\ idx = f.idx
                /\ pc = f.pc
                /\ exc = f.exc
    /\ IdleSelect /\ IdleIdent /\ IdleJob /\ IdleFile /\ IdleRun

\* the jobs of the compiled graph get their entities; the job lists of the
\* recipe graph hold the same jobs
DeclareRunEntities ==
    /\ pc = "returned"
    /\ \E decl \in Declarations(DOMAIN job_graph.node) :
          /\ job_graph' = Declared(job_graph, decl)
          /\ recipe_graph' = DeclaredLists(recipe_graph, Declared(job_graph, decl))
    /\ pc' = "running"
    /\ UNCHANGED <<recipe_edges, idx, exc>>
    /\ UNCHANGED <<selectVars, identVars, jobVars, fileVars, runVars>>

\* the jobs with an edge to n
Predecessors(G, n) == {e[1] : e \in {x \in G.edges : x[2] = n}}

\* job.mock_run(execution_context) on a job whose predecessors have run
RunJob ==
    /\ pc = "running"
    /\ run_exc = "none"
    /\ \E n \in (DOMAIN job_graph.node) \ ran :
          /\ Predecessors(job_graph, n) \subseteq ran
          /\ LET self == job_graph.node[n]["job"]
                 r == mock_run(JobNow(self, artifacts), TRUE)
             IN /\ artifacts' = AfterMocks(self, r.mock, artifacts)
                /\ run_exc' = r.exc
                /\ ran' = IF r.exc = "none" THEN ran \cup {n} ELSE ran
    /\ UNCHANGED <<compilerVars, selectVars, identVars, jobVars, fileVars>>

NextRun ==
    \/ DeclareRunEntities
    \/ RunJob

SpecRun == InitRun /\ [][NextRun]_vars

(***************************************************************************)
(* Vocabulary of the properties of the compiler.                           *)
(***************************************************************************)
RecipesOf(rg) == Range(rg.order)

JobListAt(rg, r) == rg.node[r].job_list

\* the job identifiers of recipe r, in list order
IdsAt(rg, r) == JobIdsOf(JobListAt(rg, r))

FirstJob(rg, r) == IdsAt(rg, r)[1]

LastJob(rg, r) == IdsAt(rg, r)[Len(IdsAt(rg, r))]

AllListsNonEmpty(rg) == \A r \in RecipesOf(rg) : Len(JobListAt(rg, r)) >= 1

SomeListEmpty(rg) == \E r \in RecipesOf(rg) : Len(JobListAt(rg, r)) = 0

\* exactly one node is the designated root
RootIsANode(rg) == "root" \in DOMAIN rg.graph /\ rg.graph["root"] \in RecipesOf(rg)

Returned == pc = "returned"

Raised == pc = "raised"

\* the compiled graph carries the root the recipe graph designates
RootIsFirstJobOfRootRecipe ==
    /\ "root" \in DOMAIN job_graph.graph
    /\ job_graph.graph["root"] = FirstJob(recipe_graph, recipe_graph.graph["root"])

\* some statement of the compiler is ready to run
StepReady ==
    \/ NoSubJobs(recipe_graph, CurFrame)
    \/ NoRootKey(recipe_graph, CurFrame)
    \/ BodyRuns(recipe_graph, CurFrame)
    \/ (pc = "loop" /\ idx > Len(recipe_graph.order))
    \/ pc = "edges"

\* the statements the compiler has still to run, at most
StepsLeft ==
    CASE pc = "loop" -> (Len(recipe_graph.order) + 1 - idx) + 2
      [] pc = "edges" -> 1
      [] OTHER -> 0

\* C1: for a recipe graph whose job lists are all non-empty and whose
\* designated root is one of its nodes, the compiler terminates (no exception
\* leaves it, a statement is ready to run until it returns, and every step
\* brings the return nearer) and it returns a job graph whose root attribute
\* is the identifier of the first job of the root recipe.
C1_RootOfCompiledGraph ==
    /\ []((AllListsNonEmpty(recipe_graph) /\ RootIsANode(recipe_graph)) =>
             /\ ~Raised
             /\ ~Returned => StepReady
             /\ Returned => RootIsFirstJobOfRootRecipe)
    /\ [][StepsLeft' < StepsLeft /\ StepsLeft' >= 0]_vars

\* C1 witness: a graph of two recipes was compiled, the root recipe is the
\* second one the loop met and has more than one job.
C1_Witness ==
    /\ Returned
    /\ AllListsNonEmpty(recipe_graph)
    /\ RootIsANode(recipe_graph)
    /\ Len(recipe_graph.order) = 2
    /\ recipe_graph.graph["root"] = recipe_graph.order[2]
    /\ Len(JobListAt(recipe_graph, recipe_graph.order[2])) > 1

\* C2 as claimed: when some recipe has an empty job list the compiler returns
\* no graph and the exception that leaves it is the RuntimeError of line 176.
C2_AsClaimed ==
    SomeListEmpty(recipe_graph) =>
        /\ ~Returned
        /\ Raised => exc = "RuntimeError"

\* the pairs <<a, b>> with a path of one or more edges of E from a to b
RECURSIVE PathsOf(_)
PathsOf(E) ==
    LET joined == {<<pq[1][1], pq[2][2]>> :
                      pq \in {x \in E \X E : x[1][2] = x[2][1]}}
    IN IF joined \subseteq E THEN E ELSE PathsOf(E \cup joined)

\* no node has a path back to itself
IsAcyclic(E) == \A p \in PathsOf(E) : p[1] # p[2]

\* C3: in the job graph compiled from a recipe graph that is a DAG, every
\* consecutive pair of a recipe's job list is an edge, and every edge between
\* two jobs of one recipe is such a pair.
C3_ChainWithinRecipe ==
    (Returned /\ IsAcyclic(recipe_graph.edges)) =>
        \A r \in RecipesOf(recipe_graph) :
            LET ids == IdsAt(recipe_graph, r)
            IN /\ \A i \in 1..(Len(ids) - 1) : <<ids[i], ids[i + 1]>> \in job_graph.edges
               /\ \A e \in job_graph.edges :
                      (e[1] \in Range(ids) /\ e[2] \in Range(ids)) =>
                          \E i \in 1..(Len(ids) - 1) : e = <<ids[i], ids[i + 1]>>

\* C3 witness: a recipe of three jobs, two of them with one identifier, and
\* with an edge to the other recipe, was compiled from a DAG.
C3_Witness ==
    /\ Returned
    /\ IsAcyclic(recipe_graph.edges)
    /\ \E r \in RecipesOf(recipe_graph) :
          /\ Len(IdsAt(recipe_graph, r)) = 3
          /\ Cardinality(Range(IdsAt(recipe_graph, r))) = 2
          /\ \E q \in RecipesOf(recipe_graph) : q # r /\ <<r, q>> \in recipe_graph.edges

\* C4: for every edge A->B of the recipe graph the compiled job graph has
\* the edge from the last job of A to the first job of B (a DiGraph holds an
\* edge at most once, so the edge set has exactly one such element).
C4_EdgeBetweenRecipes ==
    Returned =>
        \A e \in recipe_graph.edges :
            Cardinality({j \in job_graph.edges :
                            j = <<LastJob(recipe_graph, e[1]), FirstJob(recipe_graph, e[2])>>}) = 1

\* C4 witness: a recipe graph with edges in both directions between two
\* recipes of more than one job was compiled.
C4_Witness ==
    /\ Returned
    /\ \E a, b \in RecipesOf(recipe_graph) :
          /\ a # b
          /\ {<<a, b>>, <<b, a>>} \subseteq recipe_graph.edges
          /\ Len(JobListAt(recipe_graph, a)) > 1
          /\ Len(JobListAt(recipe_graph, b)) > 1

\* number of jobs over all job lists
RECURSIVE SumOfLengths(_, _)
SumOfLengths(rg, S) ==
    IF S = {} THEN 0
    ELSE LET r == CHOOSE x \in S : TRUE
         IN Len(JobListAt(rg, r)) + SumOfLengths(rg, S \ {r})

\* C5: an edge of the compiled job graph that joins jobs of two different
\* recipes A and B starts at the last job of A, ends at the first job of B and
\* comes from an edge A->B of the recipe graph; and the job graph has at most
\* (jobs - recipes) + (edges of the recipe graph) edges.
C5_OnlyBoundaryEdgesBetweenRecipes ==
    Returned =>
        /\ \A e \in job_graph.edges :
           \A a, b \in RecipesOf(recipe_graph) :
              (a # b /\ e[1] \in Range(IdsAt(recipe_graph, a))
                     /\ e[2] \in Range(IdsAt(recipe_graph, b))) =>
                  /\ e[1] = LastJob(recipe_graph, a)
                  /\ e[2] = FirstJob(recipe_graph, b)
                  /\ <<a, b>> \in recipe_graph.edges
        /\ Cardinality(job_graph.edges) <=
              (SumOfLengths(recipe_graph, RecipesOf(recipe_graph))
                  - Cardinality(RecipesOf(recipe_graph)))
              + Cardinality(recipe_graph.edges)

\* C5 witness: the compiled job graph has an edge between jobs of two
\* different recipes that both have more than one job.
C5_Witness ==
    /\ Returned
    /\ \E e \in job_graph.edges :
          /\ <<e[1].location_id, e[1].recipe, e[1].sex>> # <<e[2].location_id, e[2].recipe, e[2].sex>>
          /\ \A r \in RecipesOf(recipe_graph) : Len(JobListAt(recipe_graph, r)) > 1

\* the jobs listed in the recipe graph
ListedJobs(rg) == UNION {Range(JobListAt(rg, r)) : r \in RecipesOf(rg)}

\* C6: the nodes of the compiled job graph are exactly the job identifiers
\* of the listed jobs, and each node carries a job that is one of the listed
\* instances and whose identifier is the node's key.
C6_NodesAreTheListedJobs ==
    Returned =>
        /\ DOMAIN job_graph.node = {job_identifier(j) : j \in ListedJobs(recipe_graph)}
        /\ \A n \in DOMAIN job_graph.node :
              /\ "job" \in DOMAIN job_graph.node[n]
              /\ job_graph.node[n]["job"] \in ListedJobs(recipe_graph)
              /\ job_identifier(job_graph.node[n]["job"]) = n

\* C6 witness: two recipes that use the same job names were compiled into a
\* graph of four nodes.
C6_Witness ==
    /\ Returned
    /\ Cardinality(DOMAIN job_graph.node) = 4
    /\ \E a, b \in RecipesOf(recipe_graph) :
          /\ a # b
          /\ {j.name : j \in Range(JobListAt(recipe_graph, a))}
                = {j.name : j \in Range(JobListAt(recipe_graph, b))}

\* C7 as claimed: when the job lists are non-empty and the recipe graph
\* designates no root, or one that is no node, the compiler returns nothing
\* and the exception that leaves it is the AssertionError of line 188.
C7_AsClaimed ==
    /\ (AllListsNonEmpty(recipe_graph) /\ ~RootIsANode(recipe_graph)) =>
          /\ ~Returned
          /\ Raised => exc = "AssertionError"
    /\ Returned => "root" \in DOMAIN job_graph.graph

(***************************************************************************)
(* Properties of the identity model.                                       *)
(***************************************************************************)
IdFields == {"location_id", "recipe", "sex", "name"}

\* C8: two JobIdentifiers with the same four fields compare equal and hash
\* alike; two that differ in a field compare unequal; every JobIdentifier
\* equals itself, and a == b gives what b == a gives.
C8_JobIdentifierEquality ==
    cmp # Nothing =>
        LET a == jidA[1]
            b == jidB[1]
            c == cmp[1]
        IN /\ (\A x \in IdFields : a[x] = b[x]) => (c.a_eq_b /\ c.hash_a = c.hash_b)
           /\ (\E x \in IdFields : a[x] # b[x]) => ~c.a_eq_b
           /\ c.a_eq_a
           /\ c.b_eq_b
           /\ c.a_eq_b = c.b_eq_a

\* C8 witness: two JobIdentifiers that differ in the name alone were compared.
C8_Witness ==
    /\ cmp # Nothing
    /\ jidA[1].name # jidB[1].name
    /\ \A x \in IdFields \ {"name"} : jidA[1][x] = jidB[1][x]

\* C9: a constructor call raises the AssertionError exactly when the sex it
\* was given is none of male, female, both or the recipe is one of them, and
\* then it makes no object; so every identifier there is has a sex among the
\* three and a recipe that is none of them.
C9_IdentifierValidation ==
    /\ raw # Nothing =>
          /\ ctor = "AssertionError" <=>
                (raw[1].sex \notin AllowedSexes \/ raw[1].recipe \in AllowedSexes)
          /\ ctor = "AssertionError" => made = Nothing
          /\ ctor = "none" => made # Nothing
    /\ \A slot \in {rid, jidA, jidB, made} :
          slot # Nothing =>
              /\ slot[1].sex \in AllowedSexes
              /\ slot[1].recipe \notin AllowedSexes

\* C9 witness: a JobIdentifier exists, and the last constructor call was
\* refused for a recipe that is a sex token although its sex was allowed.
C9_Witness ==
    /\ jidA # Nothing
    /\ raw # Nothing
    /\ ctor = "AssertionError"
    /\ raw[1].sex \in AllowedSexes
    /\ raw[1].recipe \in AllowedSexes

(***************************************************************************)
(* Properties of the sub-graph selection.                                  *)
(***************************************************************************)
\* the predicates the caller supplied, as attribute -> value
Supplied ==
    IF argv # Nothing
    THEN [d \in DOMAIN argv[1] |-> ParsedNamespace(argv[1])[d]]
    ELSE args[1]

\* C10 as claimed: the selection returns exactly the nodes whose attribute
\* equals the supplied value for every predicate supplied; a predicate that
\* is not supplied constrains nothing.
C10_AsClaimed ==
    sub_graph # Nothing =>
        DOMAIN sub_graph[1].node =
            {n \in DOMAIN job_graph.node :
                \A d \in DOMAIN Supplied : PyEq(NodeAttr(n, d), Supplied[d])}

\* C11: the graph returned by the selection is the sub-graph induced on the
\* selected nodes: its edges are exactly the edges of the parent job graph
\* that have both ends selected.
C11_InducedSubgraph ==
    sub_graph # Nothing =>
        LET selected == DOMAIN sub_graph[1].node
        IN /\ selected \subseteq DOMAIN job_graph.node
           /\ sub_graph[1].edges \subseteq job_graph.edges
           /\ \A e \in job_graph.edges :
                 e \in sub_graph[1].edges <=> (e[1] \in selected /\ e[2] \in selected)

\* C11 witness: the selection kept an edge of the parent and dropped another
\* one that has a single end among the selected nodes.
C11_Witness ==
    /\ sub_graph # Nothing
    /\ sub_graph[1].edges # {}
    /\ \E e \in job_graph.edges :
          /\ e \notin sub_graph[1].edges
          /\ (e[1] \in DOMAIN sub_graph[1].node) # (e[2] \in DOMAIN sub_graph[1].node)

\* C12 as claimed: the selection, the attachment of the execution context
\* included, leaves the parent job graph as it was: the same nodes, edges,
\* node annotations and graph-level attributes.
C12_AsClaimed ==
    [][(sub_graph = Nothing /\ sub_graph' # Nothing) =>
          /\ job_graph'.node = job_graph.node
          /\ job_graph'.edges = job_graph.edges
          /\ job_graph'.graph = job_graph.graph]_vars

(***************************************************************************)
(* Properties of a single job.                                             *)
(***************************************************************************)
\* the entities of dict d that do not validate, each with its description
Unsatisfied(d) ==
    [n \in {m \in DOMAIN d : d[m].validate # Nothing} |-> d[n].validate[1]]

\* the last call was the named method
LastCall(method) == outcome # Nothing /\ outcome[1].call = method

\* C13: mock_run with check_inputs true on a job with an input that does not
\* validate raises the error of line 143, the error carries the mapping from
\* every unsatisfied input to its description, and no output is mocked.
C13_MockRunNotReady ==
    (/\ LastCall("mock_run")
     /\ outcome[1].check_inputs
     /\ DOMAIN Unsatisfied(job[1].inputs) # {})
    => /\ outcome[1].exc = "RuntimeError"
       /\ outcome[1].value = Some(Unsatisfied(job[1].inputs))
       /\ \A n \in DOMAIN job[1].outputs : mocked[1][n] = 0

\* C13 witness: mock_run checked the inputs of a job with two outputs and
\* two inputs that fail for different reasons.
C13_Witness ==
    /\ LastCall("mock_run")
    /\ outcome[1].check_inputs
    /\ outcome[1].exc = "RuntimeError"
    /\ DOMAIN job[1].outputs = OutputNames
    /\ DOMAIN Unsatisfied(job[1].inputs) = InputNames
    /\ Cardinality(Range(Unsatisfied(job[1].inputs))) = 2

\* C14: mock_run with check_inputs false, and mock_run with check_inputs
\* true on a job without a missing input, calls mock exactly once on every
\* declared output and raises nothing.
C14_MockRunMocksEveryOutput ==
    (/\ LastCall("mock_run")
     /\ (~outcome[1].check_inputs \/ DOMAIN Unsatisfied(job[1].inputs) = {}))
    => /\ outcome[1].exc = "none"
       /\ DOMAIN mocked[1] = DOMAIN job[1].outputs
       /\ \A n \in DOMAIN job[1].outputs : mocked[1][n] = 1

\* C14 witness: mock_run without the check of the inputs on a job with an
\* input that does not validate, with one output that validates and one that
\* does not.
C14_Witness ==
    /\ LastCall("mock_run")
    /\ ~outcome[1].check_inputs
    /\ DOMAIN Unsatisfied(job[1].inputs) # {}
    /\ DOMAIN job[1].outputs = OutputNames
    /\ Cardinality(DOMAIN Unsatisfied(job[1].outputs)) = 1
    /\ \A n \in OutputNames : mocked[1][n] = 1

\* C15: input_missing (output_missing) calls validate once on every declared
\* input (output) and returns the mapping from exactly the entities that do
\* not validate to the description validate returned; the mapping is empty
\* exactly when every entity validates.
C15_EntityMissing ==
    /\ LastCall("input_missing") =>
          /\ \A n \in DOMAIN job[1].inputs : validated[1].inputs[n] = 1
          /\ outcome[1].value = Some(Unsatisfied(job[1].inputs))
          /\ (DOMAIN outcome[1].value[1] = {}) <=>
                (\A n \in DOMAIN job[1].inputs : job[1].inputs[n].validate = Nothing)
    /\ LastCall("output_missing") =>
          /\ \A n \in DOMAIN job[1].outputs : validated[1].outputs[n] = 1
          /\ outcome[1].value = Some(Unsatisfied(job[1].outputs))
          /\ (DOMAIN outcome[1].value[1] = {}) <=>
                (\A n \in DOMAIN job[1].outputs : job[1].outputs[n].validate = Nothing)

\* C15 witness: input_missing reported two unsatisfied inputs together.
C15_Witness ==
    /\ LastCall("input_missing")
    /\ DOMAIN outcome[1].value[1] = InputNames
    /\ \A n \in InputNames : validated[1].inputs[n] = 1

\* C16: the argument vector of a JobIdentifier is the four flags, each
\* followed by the string of the identifier's own value, and the selection
\* with the options of the vector of a job J of a compiled graph returns
\* the single node J.
C16_ArgumentsSelectTheJob ==
    /\ \A J \in DOMAIN job_graph.node :
          /\ OptionsOf(arguments(J)) =
                [location_id |-> IntStr(J.location_id), recipe |-> J.recipe,
                 sex |-> J.sex, name |-> J.name]
          /\ DOMAIN sub_graph_to_run(job_graph,
                        ParsedNamespace(OptionsOf(arguments(J)))).sub_graph.node = {J}
    /\ (argv # Nothing /\ sub_graph # Nothing) =>
          \A J \in DOMAIN job_graph.node :
              argv[1] = OptionsOf(arguments(J)) => DOMAIN sub_graph[1].node = {J}

\* C16 witness: the selection ran with the argument vector of a job J of a
\* graph of three nodes or more, one of them a job of the same recipe as J,
\* and returned J alone.
C16_Witness ==
    /\ argv # Nothing
    /\ sub_graph # Nothing
    /\ Cardinality(DOMAIN job_graph.node) >= 3
    /\ \E J \in DOMAIN job_graph.node :
          /\ argv[1] = OptionsOf(arguments(J))
          /\ DOMAIN sub_graph[1].node = {J}
          /\ \E K \in DOMAIN job_graph.node :
                /\ K # J
                /\ K.location_id = J.location_id
                /\ K.recipe = J.recipe
                /\ K.sex = J.sex

\* C17 as claimed: the string of a JobIdentifier is its four fields joined
\* by underscores in the order location_id, sex, recipe, name.
C17_AsClaimed ==
    LastCall("__str__") =>
        LET self == job_identifier(job[1])
        IN outcome[1].value =
              Some(IntStr(self.location_id) \o "_" \o self.sex \o "_"
                      \o self.recipe \o "_" \o self.name)

\* C17, corrected: the string of a JobIdentifier is a function of its four
\* fields: they are joined by underscores in the order location_id, recipe,
\* sex, name.
C17_StrOrder ==
    LastCall("__str__") =>
        LET self == job_identifier(job[1])
        IN outcome[1].value =
              Some(IntStr(self.location_id) \o "_" \o self.recipe \o "_"
                      \o self.sex \o "_" \o self.name)

\* C17 witness: the string of an identifier of location 2 for females.
C17_Witness ==
    /\ LastCall("__str__")
    /\ outcome[1].value = Some("2_estimate_location_female_fit")

\* C18 as claimed: the multiplicity of every constructed job is an integer
\* that is 1 or more: it is 1 for every job but the one named
\* compute_draws_from_parent_fit, whose multiplicity is the number of fixed
\* effect samples of its local settings.
C18_AsClaimed ==
    job # Nothing =>
        /\ job[1].multiplicity \in Int
        /\ job[1].multiplicity >= 1
        /\ job[1].name # "compute_draws_from_parent_fit" => job[1].multiplicity = 1
        /\ job[1].name = "compute_draws_from_parent_fit" =>
              job[1].multiplicity = job[1].local_settings.number_of_fixed_effect_samples

\* C19 as claimed: the compiled job graph has as many nodes as there are jobs
\* over all the job lists of the recipe graph, so no two jobs of the input
\* share a node.
C19_AsClaimed ==
    Returned =>
        Cardinality(DOMAIN job_graph.node) =
            SumOfLengths(recipe_graph, RecipesOf(recipe_graph))

\* C20 as claimed: the job graph returned for an acyclic recipe graph with
\* non-empty job lists is acyclic.
C20_AsClaimed ==
    (/\ Returned
     /\ IsAcyclic(recipe_graph.edges)
     /\ AllListsNonEmpty(recipe_graph))
    => IsAcyclic(job_graph.edges)

(***************************************************************************)
(* Properties of the DismodFile.                                           *)
(***************************************************************************)
\* the last call was a flush
Flushed == last # Nothing /\ last[1].op = "flush"

\* the table is in memory with the data it had when it was last loaded from
\* the database or written to it
InStep(table_name) ==
    /\ table_name \in DOMAIN table_data.map
    /\ table_name \in DOMAIN table_hash
    /\ ContentOf(table_data.map[table_name]) = db[table_name]

\* C21: flush writes no table whose data is as it was last loaded or
\* written, and it writes a table at most once; a flush that
\* follows a completed flush at once writes no table.
C21_FlushWritesOnlyChanges ==
    [][Flushed' =>
          /\ \A n \in Range(last'[1].written) : ~InStep(n)
          /\ \A n \in TableNames : InStep(n) => db'[n] = db[n]
          /\ Cardinality(Range(last'[1].written)) = Len(last'[1].written)
          /\ (Flushed /\ last[1].exc = "none") => last'[1].written = << >>]_vars

\* C21 witness: a flush wrote one table and left alone the other one, which
\* is in memory as it was loaded.
C21_Witness ==
    /\ Flushed
    /\ last[1].exc = "none"
    /\ Len(last[1].written) = 1
    /\ \E n \in TableNames \ Range(last[1].written) :
          /\ InStep(n)
          /\ table_data.map[n].readonly = Nothing

\* C22 as claimed: when the compiler fails on an empty job list, no node and
\* no edge has been added to the job graph under construction.
C22_AsClaimed ==
    (Raised /\ exc = "RuntimeError") =>
        /\ DOMAIN job_graph.node = {}
        /\ job_graph.edges = {}

\* the recipes the loop of the compiler has passed
Visited == {recipe_graph.order[i] : i \in 1..(idx - 1)}

\* C22, corrected: the job list of a recipe is checked when the loop reaches
\* the recipe, before a node or an edge of that recipe is added and before
\* any edge between recipes is created: when the compiler fails on an empty
\* job list, the recipe it failed on is the first one with an empty list,
\* and the graph under construction holds the jobs and the chains of the
\* recipes before it and nothing else.
C22_CheckedPerRecipe ==
    (Raised /\ exc = "RuntimeError") =>
        /\ idx \in 1..Len(recipe_graph.order)
        /\ Len(JobListAt(recipe_graph, recipe_graph.order[idx])) = 0
        /\ \A r \in Visited : Len(JobListAt(recipe_graph, r)) >= 1
        /\ DOMAIN job_graph.node = UNION {Range(IdsAt(recipe_graph, r)) : r \in Visited}
        /\ job_graph.edges =
              UNION {{<<IdsAt(recipe_graph, r)[i], IdsAt(recipe_graph, r)[i + 1]>> :
                         i \in 1..(Len(IdsAt(recipe_graph, r)) - 1)} : r \in Visited}

\* C22 witness: the second recipe of the loop has no job, and the compiler
\* fails with the jobs and the chain of the first recipe in the graph.
C22_Witness ==
    /\ Raised
    /\ exc = "RuntimeError"
    /\ idx = 2
    /\ Cardinality(DOMAIN job_graph.node) >= 2
    /\ job_graph.edges # {}

\* C23 as claimed: a compiled job graph has no edge from a job to itself,
\* and a recipe with a single job has no edge between its jobs.
C23_AsClaimed ==
    Returned =>
        /\ \A e \in job_graph.edges : e[1] # e[2]
        /\ \A r \in RecipesOf(recipe_graph) :
              Len(IdsAt(recipe_graph, r)) = 1 =>
                 <<FirstJob(recipe_graph, r), FirstJob(recipe_graph, r)>>
                     \notin job_graph.edges

\* b is a, or there is a path of edges of E from a to b
Reaches(E, a, b) == a = b \/ <<a, b>> \in PathsOf(E)

\* every recipe is reachable from the root recipe in the recipe graph
RecipesReachableFromRoot ==
    /\ RootIsANode(recipe_graph)
    /\ \A r \in RecipesOf(recipe_graph) :
          Reaches(recipe_graph.edges, recipe_graph.graph["root"], r)

\* every job is reachable from the root job in the job graph
JobsReachableFromRoot ==
    \A n \in DOMAIN job_graph.node :
        Reaches(job_graph.edges, job_graph.graph["root"], n)

\* C24 as claimed: in every job graph the compiler returns, every job is
\* reachable from the root job.
C24_AsClaimed == Returned => JobsReachableFromRoot

\* C24, corrected: when every recipe is reachable from the root recipe in the
\* recipe graph, every job of the job graph the compiler returns is reachable
\* from the root job.
C24_ReachableWhenRecipesAre ==
    (Returned /\ RecipesReachableFromRoot) => JobsReachableFromRoot

\* C24 witness: two recipes of two jobs each, the second reachable from the
\* root recipe, compiled into a graph of four jobs reachable from the root.
C24_Witness ==
    /\ Returned
    /\ RecipesReachableFromRoot
    /\ Len(recipe_graph.order) = 2
    /\ Cardinality(DOMAIN job_graph.node) = 4
    /\ JobsReachableFromRoot

\* the jobs of recipe r in the job graph
JobsOf(r) == Range(IdsAt(recipe_graph, r))

\* C25: for two different recipes A and B, some job of A has a path to some
\* job of B in the compiled job graph exactly when A has a path to B in the
\* recipe graph, and then every job of A has a path to every job of B.
C25_RecipeOrderIsJobOrder ==
    Returned =>
        \A A, B \in RecipesOf(recipe_graph) :
            A # B =>
               /\ (\E a \in JobsOf(A), b \in JobsOf(B) :
                      <<a, b>> \in PathsOf(job_graph.edges))
                  <=> <<A, B>> \in PathsOf(recipe_graph.edges)
               /\ <<A, B>> \in PathsOf(recipe_graph.edges) =>
                     \A a \in JobsOf(A), b \in JobsOf(B) :
                         <<a, b>> \in PathsOf(job_graph.edges)

\* C25 witness: two recipes of two jobs each with the single edge A -> B:
\* the jobs of A reach the jobs of B, and no job of B reaches a job of A.
C25_Witness ==
    /\ Returned
    /\ Len(recipe_graph.order) = 2
    /\ Cardinality(DOMAIN job_graph.node) = 4
    /\ \E A, B \in RecipesOf(recipe_graph) :
          /\ A # B
          /\ recipe_graph.edges = {<<A, B>>}
          /\ \A a \in JobsOf(A), b \in JobsOf(B) :
                /\ <<a, b>> \in PathsOf(job_graph.edges)
                /\ <<b, a>> \notin PathsOf(job_graph.edges)

(***************************************************************************)
(* Properties of the mock run.                                             *)
(***************************************************************************)
\* the mock run goes on
Running == pc = "running"

\* the job of node n
JobAt(n) == job_graph.node[n]["job"]

\* the artifacts the outputs of node n stand for
OutputArtifacts(n) == {JobAt(n).outputs[k].artifact : k \in DOMAIN JobAt(n).outputs}

\* the artifacts the inputs of node n stand for
InputArtifacts(n) == {JobAt(n).inputs[k].artifact : k \in DOMAIN JobAt(n).inputs}

\* every input of every job is an output of a job with a path to it
EveryInputFed ==
    \A n \in DOMAIN job_graph.node :
        \A a \in InputArtifacts(n) :
            \E m \in DOMAIN job_graph.node :
                /\ <<m, n>> \in PathsOf(job_graph.edges)
                /\ a \in OutputArtifacts(m)

\* C26: with entities whose mock makes the artifact their validate looks
\* for, output_missing is empty on every job whose mock_run has returned;
\* and when every input of every job is an output of one of its
\* predecessors, no mock_run with the check of the inputs, called in an
\* order consistent with the edges, raises.
C26_MockRunFeedsSuccessors ==
    Running =>
        /\ \A n \in ran :
              DOMAIN output_missing(JobNow(JobAt(n), artifacts)).not_ready = {}
        /\ EveryInputFed => run_exc = "none"

\* C26 witness: the four jobs of two recipes have all run, three of them
\* with an input that a predecessor made.
C26_Witness ==
    /\ Running
    /\ EveryInputFed
    /\ run_exc = "none"
    /\ ran = DOMAIN job_graph.node
    /\ Cardinality(ran) = 4
    /\ Cardinality({n \in ran : InputArtifacts(n) # {}}) = 3

\* the table is in memory and marked read-only
ReadOnlyInMemory(table_name) ==
    /\ table_name \in DOMAIN table_data.map
    /\ IsReadOnly(table_data.map[table_name])

\* C27 as claimed: a flush through an engine that connects raises
\* DismodFileError when a table that is marked read-only holds data that is
\* new or changed, and does not write that table; read-only tables whose
\* data is as it was loaded cause no error.
C27_AsClaimed ==
    [][(Flushed' /\ HasConnect(attrs["engine"])) =>
          /\ (\E n \in TableNames : ReadOnlyInMemory(n) /\ ~InStep(n))
                => last'[1].exc = "DismodFileError"
          /\ \A n \in TableNames :
                (ReadOnlyInMemory(n) /\ ~InStep(n)) =>
                    /\ n \notin Range(last'[1].written)
                    /\ db'[n] = db[n]
          /\ (\A n \in TableNames : ReadOnlyInMemory(n) => InStep(n))
                => last'[1].exc = "none"]_vars

====
